---- MODULE Spec2Model ----
(***************************************************************************)
(* A model of ucs (src/ucs.go, lines 1-565): the UC record decoder, the    *)
(* identifier normalizer, the streaming text and Parquet emitters and the  *)
(* summary pass.  Strings are sequences of one-character strings, a line   *)
(* is split on TAB as strings.Split does, and the collections of the code  *)
(* (maps used as sets, the output written so far) are the state.           *)
(***************************************************************************)
EXTENDS Integers, Sequences, FiniteSets, TLC

VARIABLES
    opts,                  \* Options of the run
    pc,                    \* position of main
    scanned,               \* the lines scanner.Scan() has returned so far
    seenPairs,             \* processAndWriteText / processAndWriteParquet
    queryToTargets,        \* processAndWriteText
    duplicateCount,        \* processAndWriteText
    out,                   \* lines written to the text writer
    pq,                    \* rows written to the Parquet writer
    stderr,                \* duplicate counts reported on the error stream
    rowCount,              \* summarizeUC
    querySequences,        \* summarizeUC
    targetSequences,       \* summarizeUC
    summaryQueryToTargets, \* summarizeUC
    summaryRet,            \* the values summarizeUC returns
    summaryOut,            \* the rows writeSummary prints
    line,                  \* argument of a single parseUCRecord call
    ret,                   \* its result
    faulty,                \* the output device rejects every write
    writerErr,             \* the sticky error of the writer of the pass
    err,                   \* main: the err that line 111 tests
    exitStatus,            \* exit status of the process, -1 while it runs
    closed,                \* the handles main has closed
    flushed,               \* Flush of the buffered writer has been called
    fatal,                  \* the messages of fatalError
    seqID,                 \* the identifier given to splitSeqID
    norm                   \* the results of the calls of splitSeqID

vars == <<opts, pc, scanned, seenPairs, queryToTargets, duplicateCount, out,
          pq, stderr, rowCount, querySequences, targetSequences,
          summaryQueryToTargets, summaryRet, summaryOut, line, ret, faulty,
          writerErr, err, exitStatus, closed, flushed, fatal, seqID, norm>>

(***************************************************************************)
(* Bounds                                                                  *)
(***************************************************************************)
MaxLines == 3

\* the longest identifier given to splitSeqID
MaxIdLen == 4

(***************************************************************************)
(* Strings                                                                 *)
(***************************************************************************)
TAB == "\t"

Digits == <<"0", "1", "2", "3", "4", "5", "6", "7", "8", "9">>

IsDigit(c) == \E d \in 1..10 : Digits[d] = c

DigitVal(c) == (CHOOSE d \in 1..10 : Digits[d] = c) - 1

Pow10(n) == IF n = 0 THEN 1 ELSE IF n = 1 THEN 10 ELSE IF n = 2 THEN 100
            ELSE IF n = 3 THEN 1000 ELSE 10000

RECURSIVE SplitFrom(_, _, _, _, _)
SplitFrom(s, sep, i, cur, acc) ==
    IF i > Len(s) THEN Append(acc, cur)
    ELSE IF s[i] = sep THEN SplitFrom(s, sep, i + 1, <<>>, Append(acc, cur))
    ELSE SplitFrom(s, sep, i + 1, Append(cur, s[i]), acc)

\* strings.Split(s, sep) for a one-character separator
Split(s, sep) == SplitFrom(s, sep, 1, <<>>, <<>>)

RECURSIVE Join(_, _)
\* strings.Join(fields, sep)
Join(fields, sep) ==
    IF Len(fields) = 0 THEN <<>>
    ELSE IF Len(fields) = 1 THEN fields[1]
    ELSE fields[1] \o <<sep>> \o Join(Tail(fields), sep)

\* the part of id before its last ";"
SplitN2First_Last(id) ==
    IF \E i \in 1..Len(id) : id[i] = ";"
    THEN LET k == CHOOSE i \in 1..Len(id) :
                    id[i] = ";" /\ \A j \in (i + 1)..Len(id) : id[j] # ";"
         IN SubSeq(id, 1, k - 1)
    ELSE id

\* strings.SplitN(id, ";", 2)[0]: the part of id before its first ";"
SplitN2First(id) ==
    IF \E i \in 1..Len(id) : id[i] = ";"
    THEN LET k == CHOOSE i \in 1..Len(id) :
                    id[i] = ";" /\ \A j \in 1..(i - 1) : id[j] # ";"
         IN SubSeq(id, 1, k - 1)
    ELSE id

\* splitSeqID that cuts the identifier whatever the flag is
splitSeqID_Always(id, split) == SplitN2First(id)

\* splitSeqID
splitSeqID(id, split) == IF ~split THEN id ELSE SplitN2First(id)

RECURSIVE DigitsValue(_)
DigitsValue(s) ==
    IF Len(s) = 0 THEN 0
    ELSE 10 * DigitsValue(SubSeq(s, 1, Len(s) - 1)) + DigitVal(s[Len(s)])

AllDigits(s) == \A i \in 1..Len(s) : IsDigit(s[i])

\* math.MaxUint32 in decimal digits
MaxUint32 == <<"4", "2", "9", "4", "9", "6", "7", "2", "9", "5">>

RECURSIVE StripZeros(_)
\* the digits of a number without leading zeros
StripZeros(s) ==
    IF Len(s) > 1 /\ s[1] = "0" THEN StripZeros(Tail(s)) ELSE s

RECURSIVE DigitsLeq(_, _)
\* a <= b for two digit strings of the same length
DigitsLeq(a, b) ==
    IF Len(a) = 0 THEN TRUE
    ELSE IF DigitVal(a[1]) < DigitVal(b[1]) THEN TRUE
    ELSE IF DigitVal(a[1]) > DigitVal(b[1]) THEN FALSE
    ELSE DigitsLeq(Tail(a), Tail(b))

\* strconv.ParseUint(s, 10, 32).  A uint32 is kept as its decimal digits
\* without leading zeros, so that the whole 32-bit range is covered.
ParseUint(s) ==
    IF Len(s) = 0 \/ ~AllDigits(s) THEN [err |-> TRUE, num |-> <<"0">>]
    ELSE LET d == StripZeros(s)
         IN IF Len(d) < 10 \/ (Len(d) = 10 /\ DigitsLeq(d, MaxUint32))
            THEN [err |-> FALSE, num |-> d]
            ELSE [err |-> TRUE, num |-> MaxUint32]

\* strconv.ParseFloat(s, 64) on the decimal notation [sign] digits [. digits]
\* with at most two fractional digits; the value is kept in hundredths.
\* Any other text of the model's alphabet is a syntax error, as in Go.
ParseFloat(s) ==
    LET neg  == Len(s) > 0 /\ s[1] = "-"
        sgn  == Len(s) > 0 /\ s[1] \in {"+", "-"}
        body == IF sgn THEN Tail(s) ELSE s
        dots == {i \in 1..Len(body) : body[i] = "."}
        ip   == IF dots = {} THEN body
                ELSE SubSeq(body, 1, (CHOOSE i \in dots : TRUE) - 1)
        fp   == IF dots = {} THEN <<>>
                ELSE SubSeq(body, (CHOOSE i \in dots : TRUE) + 1, Len(body))
        good == /\ Cardinality(dots) <= 1
                /\ AllDigits(ip) /\ AllDigits(fp)
                /\ Len(ip) + Len(fp) > 0
                /\ Len(fp) <= 2
        mag  == DigitsValue(ip) * 100 + DigitsValue(fp) * Pow10(2 - Len(fp))
    IN IF good THEN [err |-> FALSE, val |-> IF neg THEN 0 - mag ELSE mag]
       ELSE [err |-> TRUE, val |-> 0]

(***************************************************************************)
(* Record decoder                                                          *)
(***************************************************************************)
\* fields[k] with the zero-based index of the Go source
F(fields, k) == fields[k + 1]

\* UCRecord{}: Identity and Strand are <<>> for nil and <<v>> for a pointer to
\* v; ClusterNumber and Size are uint32 values in decimal digits
ZeroRecord ==
    [RecordType |-> <<>>, ClusterNumber |-> <<"0">>, Size |-> <<"0">>,
     Identity |-> <<>>,
     Strand |-> <<>>, Unused1 |-> <<>>, Unused2 |-> <<>>, CIGAR |-> <<>>,
     Query |-> <<>>, Target |-> <<>>]

\* the switch on record.RecordType: the target of the record
ResolveTarget(recordType, queryLabel, targetLabel) ==
    IF recordType = <<"H">> THEN targetLabel
    ELSE IF recordType = <<"S">> THEN queryLabel
    ELSE IF recordType = <<"N">> THEN queryLabel
    ELSE targetLabel

\* the guard of the block that parses fields 1 to 4
ParsesOptionalFields(recordType) ==
    recordType # <<"H">> /\ recordType # <<"N">>

\* fields[4][0] is evaluated on an empty field 4: index out of range
StrandPanics(fields) ==
    /\ ParsesOptionalFields(F(fields, 0))
    /\ F(fields, 4) # <<"*">>
    /\ Len(F(fields, 4)) = 0

\* the record built for a line of at least 10 fields whose tag is not C
DecodeFields(fields, split) ==
    LET queryLabel  == splitSeqID(F(fields, 8), split)
        targetLabel == splitSeqID(F(fields, 9), split)
        recordType  == F(fields, 0)
        optional    == ParsesOptionalFields(recordType)
        cn          == ParseUint(F(fields, 1))
        sz          == ParseUint(F(fields, 2))
        id          == ParseFloat(F(fields, 3))
    IN [RecordType    |-> recordType,
        ClusterNumber |-> IF optional /\ ~cn.err THEN cn.num ELSE <<"0">>,
        Size          |-> IF optional /\ ~sz.err THEN sz.num ELSE <<"0">>,
        Identity      |-> IF optional /\ F(fields, 3) # <<"*">> /\ ~id.err
                          THEN <<id.val>> ELSE <<>>,
        Strand        |-> IF optional /\ F(fields, 4) # <<"*">>
                          THEN <<F(fields, 4)[1]>> ELSE <<>>,
        Unused1       |-> F(fields, 5),
        Unused2       |-> F(fields, 6),
        CIGAR         |-> F(fields, 7),
        Query         |-> queryLabel,
        Target        |-> ResolveTarget(recordType, queryLabel, targetLabel)]

\* parseUCRecord without the skip of the C records
parseUCRecord_KeepsC(ln, o) ==
    LET fields == Split(ln, TAB)
    IN IF Len(fields) < 10
       THEN [ok |-> FALSE, panic |-> FALSE, rec |-> ZeroRecord]
       ELSE IF StrandPanics(fields)
       THEN [ok |-> FALSE, panic |-> TRUE, rec |-> ZeroRecord]
       ELSE [ok |-> TRUE, panic |-> FALSE,
             rec |-> DecodeFields(fields, o.splitSeqID)]

\* parseUCRecord returning (UCRecord{}, true) for a line of fewer than 10 fields
parseUCRecord_ShortOk(ln, o) ==
    LET fields == Split(ln, TAB)
    IN IF Len(fields) < 10
       THEN [ok |-> TRUE, panic |-> FALSE, rec |-> ZeroRecord]
       ELSE IF F(fields, 0) = <<"C">>
       THEN [ok |-> FALSE, panic |-> FALSE, rec |-> ZeroRecord]
       ELSE IF StrandPanics(fields)
       THEN [ok |-> FALSE, panic |-> TRUE, rec |-> ZeroRecord]
       ELSE [ok |-> TRUE, panic |-> FALSE,
             rec |-> DecodeFields(fields, o.splitSeqID)]

\* parseUCRecord(line, opts): ok is the boolean it returns, panic says that
\* the call did not return but aborted the process
parseUCRecord(ln, o) ==
    LET fields == Split(ln, TAB)
    IN IF Len(fields) < 10
       THEN [ok |-> FALSE, panic |-> FALSE, rec |-> ZeroRecord]
       ELSE IF F(fields, 0) = <<"C">>
       THEN [ok |-> FALSE, panic |-> FALSE, rec |-> ZeroRecord]
       ELSE IF StrandPanics(fields)
       THEN [ok |-> FALSE, panic |-> TRUE, rec |-> ZeroRecord]
       ELSE [ok |-> TRUE, panic |-> FALSE,
             rec |-> DecodeFields(fields, o.splitSeqID)]

NoResult == [ok |-> FALSE, panic |-> FALSE, rec |-> ZeroRecord]

(***************************************************************************)
(* Inputs                                                                  *)
(***************************************************************************)
Star == <<"*">>

\* a UC line of ten fields
UCLine(tag, f1, f2, f3, f4, q, t) ==
    Join(<<tag, f1, f2, f3, f4, Star, Star, Star, q, t>>, TAB)

Tags == {<<"H">>, <<"S">>, <<"N">>, <<"C">>, <<"X">>}

ParseLines ==
    { UCLine(tag, f1, <<"1", "2">>, f3, f4, q, t) :
        tag \in Tags,
        f1 \in {<<"7">>, Star, <<"4", "2", "9", "4", "9", "6", "7", "2", "9", "6">>},
        f3 \in {Star, <<"9", "7", ".", "5">>, <<"x">>},
        f4 \in {Star, <<"+">>, <<"-">>, <<>>, <<"x">>},
        q \in {<<"a">>, <<"a", ";", "1", ";", "2">>},
        t \in {<<"b">>, Star, <<"b", ";", "c">>} }
    \cup { Join(<<tag, Star, Star, Star, Star, Star, Star, Star, <<"a">>>>, TAB) :
             tag \in Tags }
    \cup { <<>>, <<"H">>,
           Join(<<<<"H">>, Star, Star, Star, Star, Star, Star, Star,
                  <<"a">>, <<"b">>, <<"z">>>>, TAB) }

OptionsOf(summary, mapOnly, split, dups, multi, outputFile) ==
    [summary |-> summary, mapOnly |-> mapOnly, splitSeqID |-> split,
     removeDups |-> dups, multiMapped |-> multi, outputFile |-> outputFile]

\* the lines of the input files the passes are run on
IdA == <<"a">>

IdB == <<"b">>

IdA1 == <<"a", ";", "1">>

Num1 == <<"1">>

Num2 == <<"2">>

Ident == <<"9", "7", ".", "5">>

Lines ==
    { UCLine(<<"H">>, Num1, Num2, Ident, <<"+">>, IdA, IdB),
      UCLine(<<"H">>, Num1, Num2, Ident, <<"-">>, IdA1, IdB),
      UCLine(<<"H">>, Num2, Num2, Star, Star, IdB, Star),
      UCLine(<<"S">>, Num1, Num2, Star, Star, IdA, Star),
      UCLine(<<"S">>, Num2, Num2, Star, <<>>, IdB, Star),
      UCLine(<<"N">>, Star, Star, Star, Star, IdA, Star),
      UCLine(<<"C">>, Num2, Num1, Star, Star, IdB, IdB),
      Join(<<<<"H">>, Num1, Num2, Star, Star, Star, Star, Star, IdB>>, TAB) }

(***************************************************************************)
(* Text emission: processAndWriteText and writeUCRecord                    *)
(***************************************************************************)
RECURSIVE Itoa(_)
\* a non-negative integer in decimal digits
Itoa(n) == IF n < 10 THEN <<Digits[n + 1]>>
           ELSE Itoa(n \div 10) \o <<Digits[(n % 10) + 1]>>

\* fmt.Sprintf("%.2f", v) for a value v kept in hundredths
FormatFloat2(v) ==
    LET mag == IF v < 0 THEN 0 - v ELSE v
    IN (IF v < 0 THEN <<"-">> ELSE <<>>)
       \o Itoa(mag \div 100) \o <<".">>
       \o <<Digits[((mag % 100) \div 10) + 1], Digits[(mag % 10) + 1]>>

MapHeader == Join(<<<<"Query">>, <<"Target">>>>, TAB) \o <<"\n">>

FullHeader ==
    Join(<<<<"recordType">>, <<"clusterNumber">>, <<"size">>, <<"identity">>,
           <<"strand">>, <<"unused1">>, <<"unused2">>, <<"cigar">>,
           <<"query">>, <<"target">>>>, TAB) \o <<"\n">>

\* writeUCRecord printing the ten columns also under mapOnly
writeUCRecord_Full(record, o) ==
    LET strandStr   == IF record.Strand # <<>> THEN record.Strand
                       ELSE <<"*">>
        identityStr == IF record.Identity # <<>>
                       THEN FormatFloat2(record.Identity[1])
                       ELSE <<"*">>
    IN Join(<<record.RecordType, record.ClusterNumber, record.Size,
              identityStr, strandStr, record.Unused1, record.Unused2,
              record.CIGAR, record.Query, record.Target>>, TAB)
       \o <<"\n">>

\* the text writeUCRecord prints for a record
writeUCRecord(record, o) ==
    IF o.mapOnly
    THEN record.Query \o <<TAB>> \o record.Target \o <<"\n">>
    ELSE LET strandStr   == IF record.Strand # <<>> THEN record.Strand
                            ELSE <<"*">>
             identityStr == IF record.Identity # <<>>
                            THEN FormatFloat2(record.Identity[1])
                            ELSE <<"*">>
         IN Join(<<record.RecordType, record.ClusterNumber, record.Size,
                   identityStr, strandStr, record.Unused1, record.Unused2,
                   record.CIGAR, record.Query, record.Target>>, TAB)
            \o <<"\n">>

\* pairKey built from the query alone
pairKey_QueryOnly(record) == record.Query

\* pairKey := record.Query + "\t" + record.Target
pairKey(record) == record.Query \o <<TAB>> \o record.Target

\* m[k][v] = struct{}{} on a map of sets, creating m[k] when it is missing
MapAdd(m, k, v) ==
    [x \in DOMAIN m \cup {k} |->
        IF x = k THEN (IF k \in DOMAIN m THEN m[k] ELSE {}) \cup {v}
        ELSE m[x]]

\* m[k] = make(map) when k is missing
MapTouch(m, k) ==
    [x \in DOMAIN m \cup {k} |-> IF x \in DOMAIN m THEN m[x] ELSE {}]

EmptyMap == [x \in {} |-> {}]

\* the final loop with len(targets) > 0 in place of len(targets) > 1
MultiPairs_AnyCount(m) ==
    { p \in (DOMAIN m) \X UNION {m[x] : x \in DOMAIN m} : p[2] \in m[p[1]] }

\* the (query, target) pairs the final loop of processAndWriteText writes
MultiPairs(m) ==
    { p \in (DOMAIN m) \X UNION {m[x] : x \in DOMAIN m} :
        Cardinality(m[p[1]]) > 1 /\ p[2] \in m[p[1]] }

\* the orders in which two nested range loops over the map can visit those
\* pairs: any order of the queries, and any order of the targets of a query
RangeOrders(m) ==
    LET ps == MultiPairs(m)
        n  == Cardinality(ps)
    IN { f \in [1..n -> ps] :
           /\ \A i, j \in 1..n : i # j => f[i] # f[j]
           /\ \A i, j, k \in 1..n :
                (i < j /\ j < k /\ f[i][1] = f[k][1]) => f[j][1] = f[i][1] }

IsText == ~opts.summary /\ opts.outputFile # "out.parquet"

IsParquet == ~opts.summary /\ opts.outputFile = "out.parquet"

StreamUnchanged ==
    UNCHANGED <<opts, line, ret, faulty, seqID, norm>>

ProcessUnchanged ==
    UNCHANGED <<exitStatus, closed, flushed, fatal>>

ErrorsUnchanged ==
    UNCHANGED <<err, writerErr>>

\* a nil error and the error of a failed write
Nil == "nil"

WriteError == "write error"

SummaryUnchanged ==
    UNCHANGED <<rowCount, querySequences, targetSequences,
                summaryQueryToTargets, summaryRet, summaryOut>>

\* main: the choice of the pass
MainDispatch ==
    /\ pc = "main"
    /\ pc' = IF opts.summary THEN "summary_scan"
             ELSE IF opts.outputFile = "out.parquet" THEN "parquet_open"
             ELSE "text_header"
    /\ UNCHANGED <<scanned, seenPairs, queryToTargets, duplicateCount, out,
                   pq, stderr>>
    /\ SummaryUnchanged /\ StreamUnchanged
    /\ ProcessUnchanged /\ ErrorsUnchanged

\* processAndWriteText up to the loop: the header, which always fits the
\* empty buffer of the writer
TextHeader ==
    /\ pc = "text_header"
    /\ out' = Append(out, IF opts.mapOnly THEN MapHeader ELSE FullHeader)
    /\ pc' = "text_scan"
    /\ ErrorsUnchanged
    /\ UNCHANGED <<scanned, seenPairs, queryToTargets, duplicateCount, pq,
                   stderr>>
    /\ SummaryUnchanged /\ StreamUnchanged /\ ProcessUnchanged

\* the variables of processAndWriteText
TextState ==
    [pc |-> pc, seenPairs |-> seenPairs, queryToTargets |-> queryToTargets,
     duplicateCount |-> duplicateCount, out |-> out]

\* the body of the loop counting a duplicate and writing its row all the same
TextAfter_EmitsDuplicate(st, ln, o) ==
    LET r == parseUCRecord(ln, o)
    IN IF r.panic THEN [st EXCEPT !.pc = "panic"]
       ELSE IF ~r.ok THEN st
       ELSE LET seen  == IF o.removeDups
                         THEN st.seenPairs \cup {pairKey(r.rec)}
                         ELSE st.seenPairs
                count == IF o.removeDups /\ pairKey(r.rec) \in st.seenPairs
                         THEN st.duplicateCount + 1
                         ELSE st.duplicateCount
            IN IF o.multiMapped
               THEN [st EXCEPT !.seenPairs = seen,
                               !.duplicateCount = count,
                               !.queryToTargets =
                                   MapAdd(st.queryToTargets, r.rec.Query,
                                          r.rec.Target)]
               ELSE [st EXCEPT !.seenPairs = seen,
                               !.duplicateCount = count,
                               !.out = Append(st.out, writeUCRecord(r.rec, o))]

\* the body of the loop writing the row of a record under multiMapped too
TextAfter_WritesEarly(st, ln, o) ==
    LET r == parseUCRecord(ln, o)
    IN IF r.panic THEN [st EXCEPT !.pc = "panic"]
       ELSE IF ~r.ok THEN st
       ELSE IF o.removeDups /\ pairKey(r.rec) \in st.seenPairs
       THEN [st EXCEPT !.duplicateCount = st.duplicateCount + 1]
       ELSE LET seen == IF o.removeDups
                        THEN st.seenPairs \cup {pairKey(r.rec)}
                        ELSE st.seenPairs
            IN [st EXCEPT !.seenPairs = seen,
                          !.queryToTargets =
                              IF o.multiMapped
                              THEN MapAdd(st.queryToTargets, r.rec.Query,
                                          r.rec.Target)
                              ELSE st.queryToTargets,
                          !.out = Append(st.out, writeUCRecord(r.rec, o))]

\* the body of the loop of processAndWriteText on the line ln, every write
\* succeeding
TextAfter(st, ln, o) ==
    LET r == parseUCRecord(ln, o)
    IN IF r.panic THEN [st EXCEPT !.pc = "panic"]
       ELSE IF ~r.ok THEN st
       ELSE IF o.removeDups /\ pairKey(r.rec) \in st.seenPairs
       THEN [st EXCEPT !.duplicateCount = st.duplicateCount + 1]
       ELSE LET seen == IF o.removeDups
                        THEN st.seenPairs \cup {pairKey(r.rec)}
                        ELSE st.seenPairs
            IN IF o.multiMapped
               THEN [st EXCEPT !.seenPairs = seen,
                               !.queryToTargets =
                                   MapAdd(st.queryToTargets, r.rec.Query,
                                          r.rec.Target)]
               ELSE [st EXCEPT !.seenPairs = seen,
                               !.out = Append(st.out, writeUCRecord(r.rec, o))]

\* one iteration of the loop of processAndWriteText on the line ln.  On a
\* faulty device the write of a row fails when it has to empty the buffer
\* of the writer; how many rows the buffer holds is left open.
TextLine(ln) ==
    /\ pc = "text_scan"
    /\ Len(scanned) < MaxLines
    /\ scanned' = Append(scanned, ln)
    /\ LET st == TextAfter(TextState, ln, opts)
       IN \/ /\ pc' = st.pc
             /\ seenPairs' = st.seenPairs
             /\ queryToTargets' = st.queryToTargets
             /\ duplicateCount' = st.duplicateCount
             /\ out' = st.out
             /\ ErrorsUnchanged
          \/ /\ faulty
             /\ st.out # out
             /\ seenPairs' = st.seenPairs
             /\ writerErr' = WriteError
             /\ err' = WriteError
             /\ pc' = "failed"
             /\ UNCHANGED <<queryToTargets, duplicateCount, out>>
    /\ UNCHANGED <<pq, stderr>>
    /\ SummaryUnchanged /\ StreamUnchanged /\ ProcessUnchanged

\* the rows the final loop writes when it visits the pairs in the order f
MultiRows(f, o) ==
    [i \in 1..Len(f) |->
        writeUCRecord([ZeroRecord EXCEPT !.Query = f[i][1],
                                         !.Target = f[i][2]], o)]

\* processAndWriteText after the loop: the rows of the multi-mapped queries
\* and the report of the duplicates
TextEnd ==
    /\ pc = "text_scan"
    /\ \/ /\ IF opts.multiMapped
             THEN \E f \in RangeOrders(queryToTargets) :
                     out' = out \o MultiRows(f, opts)
             ELSE out' = out
          /\ stderr' = IF duplicateCount > 0
                       THEN Append(stderr, duplicateCount)
                       ELSE stderr
          /\ pc' = "done"
          /\ ErrorsUnchanged
       \/ /\ faulty
          /\ opts.multiMapped
          /\ \E f \in RangeOrders(queryToTargets) :
                \E k \in 1..Len(f) :
                   out' = out \o SubSeq(MultiRows(f, opts), 1, k - 1)
          /\ writerErr' = WriteError
          /\ err' = WriteError
          /\ pc' = "failed"
          /\ stderr' = stderr
    /\ UNCHANGED <<scanned, seenPairs, queryToTargets, duplicateCount, pq>>
    /\ SummaryUnchanged /\ StreamUnchanged /\ ProcessUnchanged

(***************************************************************************)
(* Parquet emission: processAndWriteParquet                                *)
(***************************************************************************)
\* UCRecord.ToParquet
ToParquet(r) ==
    [RecordType |-> r.RecordType, ClusterNumber |-> r.ClusterNumber,
     Size |-> r.Size, Identity |-> r.Identity,
     Strand |-> IF r.Strand # <<>> THEN r.Strand ELSE <<"*">>,
     Unused1 |-> r.Unused1, Unused2 |-> r.Unused2, CIGAR |-> r.CIGAR,
     Query |-> r.Query, Target |-> r.Target]

\* processAndWriteParquet up to the loops: the file and the writer
ParquetOpen ==
    /\ pc = "parquet_open"
    /\ pc' = "parquet_scan"
    /\ UNCHANGED <<scanned, seenPairs, queryToTargets, duplicateCount, out,
                   pq, stderr>>
    /\ SummaryUnchanged /\ StreamUnchanged
    /\ ProcessUnchanged /\ ErrorsUnchanged

\* one iteration of either loop of processAndWriteParquet on the line ln;
\* on a faulty device writer.Write may fail
ParquetLine(ln) ==
    /\ pc = "parquet_scan"
    /\ Len(scanned) < MaxLines
    /\ scanned' = Append(scanned, ln)
    /\ LET r == parseUCRecord(ln, opts)
       IN IF r.panic
          THEN /\ pc' = "panic"
               /\ UNCHANGED <<seenPairs, pq>>
               /\ ErrorsUnchanged
          ELSE IF ~r.ok
          THEN UNCHANGED <<pc, seenPairs, pq, err, writerErr>>
          ELSE IF opts.removeDups /\ pairKey(r.rec) \in seenPairs
          THEN UNCHANGED <<pc, seenPairs, pq, err, writerErr>>
          ELSE /\ seenPairs' = IF opts.removeDups
                               THEN seenPairs \cup {pairKey(r.rec)}
                               ELSE seenPairs
               /\ \/ /\ pq' = Append(pq, IF opts.mapOnly
                                         THEN [Query |-> r.rec.Query,
                                               Target |-> r.rec.Target]
                                         ELSE ToParquet(r.rec))
                     /\ pc' = pc
                     /\ ErrorsUnchanged
                  \/ /\ faulty
                     /\ writerErr' = WriteError
                     /\ err' = WriteError
                     /\ pc' = "failed"
                     /\ pq' = pq
    /\ UNCHANGED <<queryToTargets, duplicateCount, out, stderr>>
    /\ SummaryUnchanged /\ StreamUnchanged /\ ProcessUnchanged

\* processAndWriteParquet after the loop: it returns scanner.Err(), and the
\* deferred writer.Close() writes what is buffered and drops its error
ParquetEnd ==
    /\ pc = "parquet_scan"
    /\ pc' = "done"
    /\ writerErr' = IF faulty THEN WriteError ELSE writerErr
    /\ err' = err
    /\ UNCHANGED <<scanned, seenPairs, queryToTargets, duplicateCount, out,
                   pq, stderr>>
    /\ SummaryUnchanged /\ StreamUnchanged /\ ProcessUnchanged

(***************************************************************************)
(* Summary: summarizeUC and writeSummary                                   *)
(***************************************************************************)
\* the target label summarizeUC gives a line
SummaryTarget(fields, split) ==
    IF F(fields, 0) = <<"S">> THEN splitSeqID(F(fields, 8), split)
    ELSE splitSeqID(F(fields, 9), split)

\* rowCount++ moved behind the check of the number of fields
RowCountAfter_ValidOnly(rc, fields) ==
    IF Len(fields) < 10 THEN rc ELSE rc + 1

\* rowCount++ moved into the block that records a target
RowCountAfter_TargetOnly(rc, fields) ==
    IF Len(fields) >= 10 /\ F(fields, 0) # <<"C">> /\ F(fields, 9) # <<"*">>
    THEN rc + 1 ELSE rc

\* rowCount++ at the head of the loop body: every line is counted
RowCountAfter(rc, fields) == rc + 1

\* the lines summarizeUC neither skips as broken nor as C records
SummaryCounts(fields) ==
    Len(fields) >= 10 /\ F(fields, 0) # <<"C">>

\* querySequences after the loop body on a line
QuerySequencesAfter(qs, fields, split) ==
    IF SummaryCounts(fields)
    THEN qs \cup {splitSeqID(F(fields, 8), split)}
    ELSE qs

\* targetSequences after the loop body on a line
TargetSequencesAfter(ts, fields, split) ==
    IF SummaryCounts(fields) /\ SummaryTarget(fields, split) # <<"*">>
    THEN ts \cup {SummaryTarget(fields, split)}
    ELSE ts

\* queryToTargets of summarizeUC after the loop body on a line
SummaryMapAfter(m, fields, split) ==
    IF ~SummaryCounts(fields) THEN m
    ELSE IF SummaryTarget(fields, split) # <<"*">>
    THEN MapAdd(m, splitSeqID(F(fields, 8), split),
                SummaryTarget(fields, split))
    ELSE MapTouch(m, splitSeqID(F(fields, 8), split))

\* one iteration of the loop of summarizeUC on the line ln
SummaryLine(ln) ==
    /\ pc = "summary_scan"
    /\ Len(scanned) < MaxLines
    /\ scanned' = Append(scanned, ln)
    /\ rowCount' = RowCountAfter(rowCount, Split(ln, TAB))
    /\ querySequences' =
          QuerySequencesAfter(querySequences, Split(ln, TAB), opts.splitSeqID)
    /\ targetSequences' =
          TargetSequencesAfter(targetSequences, Split(ln, TAB),
                               opts.splitSeqID)
    /\ summaryQueryToTargets' =
          SummaryMapAfter(summaryQueryToTargets, Split(ln, TAB),
                          opts.splitSeqID)
    /\ UNCHANGED <<pc, seenPairs, queryToTargets, duplicateCount, out, pq,
                   stderr, summaryRet, summaryOut>>
    /\ StreamUnchanged /\ ProcessUnchanged /\ ErrorsUnchanged

RECURSIVE SummaryQueries(_, _)
\* querySequences of summarizeUC at the end of a pass over lines
SummaryQueries(lines, split) ==
    IF Len(lines) = 0 THEN {}
    ELSE QuerySequencesAfter(
            SummaryQueries(SubSeq(lines, 1, Len(lines) - 1), split),
            Split(lines[Len(lines)], TAB), split)

RECURSIVE SummaryTargets(_, _)
\* targetSequences of summarizeUC at the end of a pass over lines
SummaryTargets(lines, split) ==
    IF Len(lines) = 0 THEN {}
    ELSE TargetSequencesAfter(
            SummaryTargets(SubSeq(lines, 1, Len(lines) - 1), split),
            Split(lines[Len(lines)], TAB), split)

RECURSIVE TextRun(_, _, _)
\* the variables of processAndWriteText after its loop has run over lines
TextRun(st, lines, o) ==
    IF Len(lines) = 0 \/ st.pc = "panic" THEN st
    ELSE TextRun(TextAfter(st, Head(lines), o), Tail(lines), o)

\* the variables of processAndWriteText when its loop starts
TextStart(o) ==
    [pc |-> "text_scan", seenPairs |-> {}, queryToTargets |-> EmptyMap,
     duplicateCount |-> 0,
     out |-> <<IF o.mapOnly THEN MapHeader ELSE FullHeader>>]

\* summarizeUC after the loop: the count of the multi-mapped queries and
\* the values returned
SummaryEnd ==
    /\ pc = "summary_scan"
    /\ LET multiMappedQueries ==
              Cardinality({q \in DOMAIN summaryQueryToTargets :
                             Cardinality(summaryQueryToTargets[q]) > 1})
       IN summaryRet' = <<rowCount, Cardinality(querySequences),
                          Cardinality(targetSequences), multiMappedQueries>>
    /\ pc' = "summary_write"
    /\ UNCHANGED <<scanned, seenPairs, queryToTargets, duplicateCount, out,
                   pq, stderr, rowCount, querySequences, targetSequences,
                   summaryQueryToTargets, summaryOut>>
    /\ StreamUnchanged /\ ProcessUnchanged /\ ErrorsUnchanged

\* the rows of writeSummary, in the order it prints them
SummaryRows(rc, uq, ut, mm) ==
    << [label |-> "Total lines in the file:", value |-> rc],
       [label |-> "Unique query sequences:", value |-> uq],
       [label |-> "Unique target sequences:", value |-> ut],
       [label |-> "Queries mapped to multiple targets:", value |-> mm] >>

\* main calls writeSummary with the values of summarizeUC.  The text fits
\* the buffer of the writer, so WriteString returns nil; the deferred Flush
\* writes it to the device and drops its error.  The err this call is
\* assigned to is the one declared in the summary block of main, not the
\* err that the last check of main tests.
WriteSummary ==
    /\ pc = "summary_write"
    /\ summaryOut' = IF faulty THEN summaryOut
                     ELSE SummaryRows(summaryRet[1], summaryRet[2],
                                      summaryRet[3], summaryRet[4])
    /\ writerErr' = IF faulty THEN WriteError ELSE writerErr
    /\ flushed' = TRUE
    /\ err' = err
    /\ pc' = "done"
    /\ UNCHANGED <<scanned, seenPairs, queryToTargets, duplicateCount, out,
                   pq, stderr, rowCount, querySequences, targetSequences,
                   summaryQueryToTargets, summaryRet>>
    /\ UNCHANGED <<exitStatus, closed, fatal>>
    /\ StreamUnchanged

Handles == {"input", "output"}

PassUnchanged ==
    UNCHANGED <<scanned, seenPairs, queryToTargets, duplicateCount, out, pq,
                stderr>>

\* the end of main: the check of err, then either fatalError, whose
\* os.Exit(1) runs no deferred call, or the return from main, which runs
\* writer.Flush() (dropping its error), output.Close() and input.Close()
MainExit ==
    /\ pc \in {"done", "failed"}
    /\ IF err # Nil
       THEN /\ fatal' = Append(fatal, "Error processing file")
            /\ exitStatus' = 1
            /\ UNCHANGED <<closed, flushed, writerErr>>
       ELSE /\ exitStatus' = 0
            /\ closed' = Handles
            /\ flushed' = TRUE
            /\ writerErr' = IF faulty /\ IsText THEN WriteError
                            ELSE writerErr
            /\ fatal' = fatal
    /\ pc' = "exited"
    /\ err' = err
    /\ PassUnchanged /\ SummaryUnchanged /\ StreamUnchanged

\* a panic in parseUCRecord unwinds main: the deferred calls run and the
\* runtime exits with status 2
PanicExit ==
    /\ pc = "panic"
    /\ exitStatus' = 2
    /\ closed' = Handles
    /\ flushed' = TRUE
    /\ writerErr' = IF faulty THEN WriteError ELSE writerErr
    /\ pc' = "exited"
    /\ UNCHANGED <<err, fatal>>
    /\ PassUnchanged /\ SummaryUnchanged /\ StreamUnchanged

(***************************************************************************)
(* The run of main over an input                                           *)
(***************************************************************************)
\* the summary pass reads no flag but splitSeqID: the other three are all
\* off or all on
RunOptions ==
    { OptionsOf(FALSE, m, s, d, u, f) :
        m \in BOOLEAN, s \in BOOLEAN, d \in BOOLEAN, u \in BOOLEAN,
        f \in {"-", "out.parquet"} }
    \cup { OptionsOf(TRUE, b, s, b, b, "-") : b \in BOOLEAN, s \in BOOLEAN }

Init ==
    /\ opts \in RunOptions
    /\ pc = "main"
    /\ scanned = <<>>
    /\ seenPairs = {}
    /\ queryToTargets = EmptyMap
    /\ duplicateCount = 0
    /\ out = <<>>
    /\ pq = <<>>
    /\ stderr = <<>>
    /\ rowCount = 0
    /\ querySequences = {}
    /\ targetSequences = {}
    /\ summaryQueryToTargets = EmptyMap
    /\ summaryRet = <<>>
    /\ summaryOut = <<>>
    /\ line = <<>>
    /\ ret = NoResult
    /\ faulty = FALSE
    /\ writerErr = Nil
    /\ err = Nil
    /\ exitStatus = -1
    /\ closed = {}
    /\ flushed = FALSE
    /\ fatal = <<>>
    /\ seqID = <<>>
    /\ norm = <<>>

Next ==
    \/ MainDispatch
    \/ TextHeader
    \/ \E ln \in Lines : TextLine(ln)
    \/ TextEnd
    \/ ParquetOpen
    \/ \E ln \in Lines : ParquetLine(ln)
    \/ ParquetEnd
    \/ \E ln \in Lines : SummaryLine(ln)
    \/ SummaryEnd
    \/ WriteSummary
    \/ MainExit
    \/ PanicExit

Spec == Init /\ [][Next]_vars

(***************************************************************************)
(* The run of main on an output device that may reject writes              *)
(***************************************************************************)
MainLines ==
    { UCLine(<<"H">>, Num1, Num2, Ident, <<"+">>, IdA, IdB),
      UCLine(<<"S">>, Num1, Num2, Star, Star, IdA, Star),
      UCLine(<<"S">>, Num2, Num2, Star, <<>>, IdB, Star) }

InitMain ==
    /\ opts \in RunOptions
    /\ pc = "main"
    /\ scanned = <<>>
    /\ seenPairs = {}
    /\ queryToTargets = EmptyMap
    /\ duplicateCount = 0
    /\ out = <<>>
    /\ pq = <<>>
    /\ stderr = <<>>
    /\ rowCount = 0
    /\ querySequences = {}
    /\ targetSequences = {}
    /\ summaryQueryToTargets = EmptyMap
    /\ summaryRet = <<>>
    /\ summaryOut = <<>>
    /\ line = <<>>
    /\ ret = NoResult
    /\ faulty \in BOOLEAN
    /\ writerErr = Nil
    /\ err = Nil
    /\ exitStatus = -1
    /\ closed = {}
    /\ flushed = FALSE
    /\ fatal = <<>>
    /\ seqID = <<>>
    /\ norm = <<>>

NextMain ==
    \/ MainDispatch
    \/ TextHeader
    \/ \E ln \in MainLines : TextLine(ln)
    \/ TextEnd
    \/ ParquetOpen
    \/ \E ln \in MainLines : ParquetLine(ln)
    \/ ParquetEnd
    \/ \E ln \in MainLines : SummaryLine(ln)
    \/ SummaryEnd
    \/ WriteSummary
    \/ MainExit
    \/ PanicExit

SpecMain == InitMain /\ [][NextMain]_vars

(***************************************************************************)
(* A single call of parseUCRecord                                          *)
(***************************************************************************)
InitParse ==
    /\ opts \in { OptionsOf(FALSE, m, s, TRUE, FALSE, "-") : m \in BOOLEAN, s \in BOOLEAN }
    /\ pc = "parse"
    /\ line \in ParseLines
    /\ ret = NoResult
    /\ scanned = <<>>
    /\ seenPairs = {}
    /\ queryToTargets = EmptyMap
    /\ duplicateCount = 0
    /\ out = <<>>
    /\ pq = <<>>
    /\ stderr = <<>>
    /\ rowCount = 0
    /\ querySequences = {}
    /\ targetSequences = {}
    /\ summaryQueryToTargets = EmptyMap
    /\ summaryRet = <<>>
    /\ summaryOut = <<>>
    /\ faulty = FALSE
    /\ writerErr = Nil
    /\ err = Nil
    /\ exitStatus = -1
    /\ closed = {}
    /\ flushed = FALSE
    /\ fatal = <<>>
    /\ seqID = <<>>
    /\ norm = <<>>

ParseCall ==
    /\ pc = "parse"
    /\ ret' = parseUCRecord(line, opts)
    /\ pc' = IF ret'.panic THEN "panic" ELSE "parsed"
    /\ UNCHANGED <<opts, scanned, seenPairs, queryToTargets, duplicateCount,
                   out, pq, stderr, rowCount, querySequences, targetSequences,
                   summaryQueryToTargets, summaryRet, summaryOut, line,
                   faulty, writerErr, err, exitStatus, closed, flushed,
                   fatal, seqID, norm>>

NextParse == ParseCall

SpecParse == InitParse /\ [][NextParse]_vars

(***************************************************************************)
(* Calls of splitSeqID on an identifier and on its own result              *)
(***************************************************************************)
IdChars == {"a", "b", ";"}

RECURSIVE StringsUpTo(_)
\* the strings over IdChars of at most n characters
StringsUpTo(n) ==
    IF n = 0 THEN {<<>>}
    ELSE LET shorter == StringsUpTo(n - 1)
         IN shorter \cup {Append(x, c) : x \in shorter, c \in IdChars}

InitSplit ==
    /\ opts \in {OptionsOf(FALSE, FALSE, s, FALSE, FALSE, "-") : s \in BOOLEAN}
    /\ pc = "split"
    /\ scanned = <<>>
    /\ seenPairs = {}
    /\ queryToTargets = EmptyMap
    /\ duplicateCount = 0
    /\ out = <<>>
    /\ pq = <<>>
    /\ stderr = <<>>
    /\ rowCount = 0
    /\ querySequences = {}
    /\ targetSequences = {}
    /\ summaryQueryToTargets = EmptyMap
    /\ summaryRet = <<>>
    /\ summaryOut = <<>>
    /\ line = <<>>
    /\ ret = NoResult
    /\ faulty = FALSE
    /\ writerErr = Nil
    /\ err = Nil
    /\ exitStatus = -1
    /\ closed = {}
    /\ flushed = FALSE
    /\ fatal = <<>>
    /\ seqID \in StringsUpTo(MaxIdLen)
    /\ norm = <<>>

\* splitSeqID called on the identifier, then on the result of the call
SplitCall ==
    /\ pc = "split"
    /\ Len(norm) < 2
    /\ norm' = Append(norm,
                      splitSeqID(IF Len(norm) = 0 THEN seqID
                                 ELSE norm[Len(norm)],
                                 opts.splitSeqID))
    /\ UNCHANGED <<opts, pc, scanned, seenPairs, queryToTargets,
                   duplicateCount, out, pq, stderr, rowCount, querySequences,
                   targetSequences, summaryQueryToTargets, summaryRet,
                   summaryOut, line, ret, faulty, writerErr, err, exitStatus,
                   closed, flushed, fatal, seqID>>

NextSplit == SplitCall

SpecSplit == InitSplit /\ [][NextSplit]_vars

(***************************************************************************)
(* Claims about parseUCRecord                                              *)
(***************************************************************************)
LineFields == Split(line, TAB)

LineDecodable == Len(LineFields) >= 10 /\ F(LineFields, 0) # <<"C">>

\* C1: for every line with at least 10 tab-separated fields and a tag other
\* than C, parseUCRecord returns a record whose Query is the normalized
\* field 8; its Target is that Query for the tags S and N and the normalized
\* field 9 for the tag H.
C1_EffectiveResolution ==
    (pc # "parse" /\ LineDecodable) =>
        /\ pc = "parsed"
        /\ ret.ok
        /\ ret.rec.Query = splitSeqID(F(LineFields, 8), opts.splitSeqID)
        /\ (F(LineFields, 0) \in {<<"S">>, <<"N">>} =>
                ret.rec.Target = ret.rec.Query)
        /\ (F(LineFields, 0) = <<"H">> =>
                ret.rec.Target = splitSeqID(F(LineFields, 9), opts.splitSeqID))

\* C1 restricted to the calls that return: the resolution rule itself
C1_ResolutionWhenReturned ==
    (pc = "parsed" /\ LineDecodable) =>
        /\ ret.ok
        /\ ret.rec.Query = splitSeqID(F(LineFields, 8), opts.splitSeqID)
        /\ (F(LineFields, 0) \in {<<"S">>, <<"N">>} =>
                ret.rec.Target = ret.rec.Query)
        /\ (F(LineFields, 0) = <<"H">> =>
                ret.rec.Target = splitSeqID(F(LineFields, 9), opts.splitSeqID))

(***************************************************************************)
(* Claims about the passes over an input                                   *)
(***************************************************************************)
\* what parseUCRecord returns for each line of the inputs under each value
\* of the splitSeqID option, the only option it reads
Decoded ==
    [ln \in Lines, split \in BOOLEAN |->
        parseUCRecord(ln, OptionsOf(FALSE, FALSE, split, FALSE, FALSE, "-"))]

\* the positions of the scanned lines that parseUCRecord decodes
DecodedIdx ==
    {i \in 1..Len(scanned) : Decoded[scanned[i], opts.splitSeqID].ok}

RecordAt(i) == Decoded[scanned[i], opts.splitSeqID].rec

\* the (effective query, effective target) pairs of the decoded records
DecodedPairs == { <<RecordAt(i).Query, RecordAt(i).Target>> : i \in DecodedIdx }

\* the (query, target) pair in the last two columns of a written line
RowPair(row) ==
    LET cols == Split(SubSeq(row, 1, Len(row) - 1), TAB)
    IN <<cols[Len(cols) - 1], cols[Len(cols)]>>

\* the positions of the data rows in the text output
DataRows == 2..Len(out)

TextDedupDirect == IsText /\ opts.removeDups /\ ~opts.multiMapped

InTextPass == pc \in {"text_scan", "done", "panic"}

\* C2: in processAndWriteText with deduplication on and multi-target off,
\* after every processed line each distinct (effective query, effective
\* target) pair has been emitted exactly once, duplicateCount plus the
\* number of distinct pairs seen is the number of decoded records, and two
\* records have the same seen-set key only if they have the same pair.
C2_DedupExactness ==
    (TextDedupDirect /\ InTextPass) =>
        /\ \A p \in DecodedPairs :
              Cardinality({i \in DataRows : RowPair(out[i]) = p}) = 1
        /\ \A i \in DataRows : RowPair(out[i]) \in DecodedPairs
        /\ Cardinality(seenPairs) = Cardinality(DecodedPairs)
        /\ duplicateCount + Cardinality(seenPairs) = Cardinality(DecodedIdx)
        /\ \A i, j \in DecodedIdx :
              pairKey(RecordAt(i)) = pairKey(RecordAt(j)) =>
                 /\ RecordAt(i).Query = RecordAt(j).Query
                 /\ RecordAt(i).Target = RecordAt(j).Target

C2_Witness ==
    /\ TextDedupDirect
    /\ pc = "text_scan"
    /\ duplicateCount >= 1
    /\ Cardinality(seenPairs) >= 2
    /\ \E p1, p2 \in DecodedPairs : p1 # p2 /\ p1[1] = p2[1]

\* the distinct effective targets of the decoded records of a query
TargetsOf(q) == { p[2] : p \in {x \in DecodedPairs : x[1] = q} }

DecodedQueries == { p[1] : p \in DecodedPairs }

\* C3: in processAndWriteText with the multi-target toggle on, at end of
\* input a query is in the output exactly if it has at least 2 distinct
\* effective targets, every pair of such a query is emitted exactly once,
\* and nothing is emitted for a query with one distinct target.
C3_MultiTargetCompleteness ==
    (IsText /\ opts.multiMapped /\ pc = "done") =>
        /\ { RowPair(out[i])[1] : i \in DataRows } =
              { q \in DecodedQueries : Cardinality(TargetsOf(q)) >= 2 }
        /\ \A q \in DecodedQueries :
              Cardinality(TargetsOf(q)) >= 2 =>
                 \A t \in TargetsOf(q) :
                    Cardinality({i \in DataRows :
                                   RowPair(out[i]) = <<q, t>>}) = 1
        /\ \A i \in DataRows : RowPair(out[i]) \in DecodedPairs

C3_Witness ==
    /\ IsText /\ opts.multiMapped /\ pc = "done"
    /\ Len(out) >= 3
    /\ \E q \in DecodedQueries : Cardinality(TargetsOf(q)) = 1

\* a step that reads one more line of the input
ScansLine == Len(scanned') = Len(scanned) + 1

NewFields == Split(scanned'[Len(scanned')], TAB)

LastFields == Split(scanned[Len(scanned)], TAB)

\* C4: on the text, Parquet and summary paths and for every combination of
\* the flags, a line whose tag is C adds nothing to the unique-query set,
\* the unique-target set, the dedup set, the query-to-targets maps or the
\* emitted rows.
C4_CRecordExclusion ==
    [][ (ScansLine /\ F(NewFields, 0) = <<"C">>) =>
            UNCHANGED <<querySequences, targetSequences, seenPairs,
                        queryToTargets, summaryQueryToTargets, out, pq>> ]_vars

C4_Witness ==
    /\ pc = "text_scan"
    /\ ~opts.removeDups /\ ~opts.multiMapped
    /\ Len(scanned) = 2
    /\ F(LastFields, 0) = <<"C">>
    /\ Len(LastFields) >= 10
    /\ Len(out) = 2

\* C5: a line with fewer than 10 tab-separated fields is skipped on every
\* path: parseUCRecord returns not-ok, no set, counter, map or emitted row
\* changes (only the line count of the summary does), and the pass goes on
\* with the next line.
C5_ShortLineSkipped ==
    [][ (ScansLine /\ Len(NewFields) < 10) =>
            /\ ~parseUCRecord(scanned'[Len(scanned')], opts).ok
            /\ ~parseUCRecord(scanned'[Len(scanned')], opts).panic
            /\ UNCHANGED <<querySequences, targetSequences, seenPairs,
                           duplicateCount, queryToTargets,
                           summaryQueryToTargets, out, pq, stderr, pc>>
            /\ (opts.summary => rowCount' = rowCount + 1) ]_vars

C5_Witness ==
    /\ pc = "parquet_scan"
    /\ Len(scanned) = 2
    /\ Len(LastFields) < 10
    /\ Len(pq) = 1

\* the lines of the input that are neither skipped nor C lines
ValidIdx ==
    {i \in 1..Len(scanned) :
        /\ Len(Split(scanned[i], TAB)) >= 10
        /\ F(Split(scanned[i], TAB), 0) # <<"C">>}

\* the effective query of a line: its normalized field 8
DecoderQuery(i) ==
    splitSeqID(F(Split(scanned[i], TAB), 8), opts.splitSeqID)

\* the effective target of a line by the rule of the decoder
DecoderTarget(i) ==
    ResolveTarget(F(Split(scanned[i], TAB), 0), DecoderQuery(i),
                  splitSeqID(F(Split(scanned[i], TAB), 9), opts.splitSeqID))

\* C6: in summary mode the reported unique-target count is the number of
\* distinct effective targets of the non-skipped, non-C lines, resolved by
\* the rule of the decoder (H: normalized field 9; S and N: the normalized
\* query), a literal * target not counted.
C6_SummaryTargetCount ==
    (opts.summary /\ pc = "done") =>
        summaryOut[3].value =
            Cardinality({DecoderTarget(i) : i \in ValidIdx} \ {Star})

\* the statistic a label of the summary stands for
StatisticOf(label) ==
    IF label = "Total lines in the file:" THEN "lines"
    ELSE IF label = "Unique query sequences:" THEN "unique queries"
    ELSE IF label = "Unique target sequences:" THEN "unique targets"
    ELSE IF label = "Queries mapped to multiple targets:" THEN "multi-mapped"
    ELSE "duplicates"

\* the records whose pair occurred on an earlier line of the pass
RepeatedIdx ==
    {i \in ValidIdx :
        \E j \in ValidIdx :
            /\ j < i
            /\ DecoderQuery(j) = DecoderQuery(i)
            /\ DecoderTarget(j) = DecoderTarget(i)}

\* C7: summary mode reports five statistics in the order lines, unique
\* queries, unique targets, duplicates, multi-mapped, and the duplicates
\* statistic is the number of non-skipped, non-C records whose pair
\* occurred earlier in the pass.
C7_SummaryStatistics ==
    (opts.summary /\ pc = "done") =>
        /\ Len(summaryOut) = 5
        /\ [i \in 1..5 |-> StatisticOf(summaryOut[i].label)] =
              <<"lines", "unique queries", "unique targets", "duplicates",
                "multi-mapped">>
        /\ summaryOut[4].value = Cardinality(RepeatedIdx)

\* C8: the line count of summary mode is the number of lines read: lines
\* with fewer than 10 fields and C lines are counted.
C8_LineCount ==
    opts.summary =>
        /\ rowCount = Len(scanned)
        /\ (pc = "done" => summaryOut[1].value = Len(scanned))

C8_Witness ==
    /\ opts.summary /\ pc = "done"
    /\ Len(scanned) = 3
    /\ \E i \in 1..3 : Len(Split(scanned[i], TAB)) < 10
    /\ \E i \in 1..3 : F(Split(scanned[i], TAB), 0) = <<"C">>
    /\ ValidIdx # {}

\* the distinct resolved targets of a query, literal * excluded
ResolvedTargets(q) ==
    {DecoderTarget(i) : i \in {j \in ValidIdx : DecoderQuery(j) = q}} \ {Star}

\* C9: the multi-mapped statistic of summary mode is the number of distinct
\* effective queries whose set of distinct resolved targets (literal *
\* excluded) has more than one member; a query without a resolved target
\* counts as a unique query and not as multi-mapped.
C9_MultiMappedCount ==
    (opts.summary /\ pc = "done") =>
        /\ summaryOut[4].value =
              Cardinality({q \in {DecoderQuery(i) : i \in ValidIdx} :
                             Cardinality(ResolvedTargets(q)) > 1})
        /\ summaryOut[2].value =
              Cardinality({DecoderQuery(i) : i \in ValidIdx})

\* C10: after any prefix of the input processed by summarizeUC the line
\* count is at least the number of unique effective queries, and so are the
\* values reported at the end of the pass.
C10_LineCountBound ==
    opts.summary =>
        /\ rowCount >= Cardinality(querySequences)
        /\ (pc = "done" => summaryOut[1].value >= summaryOut[2].value)

C10_Witness ==
    /\ opts.summary /\ pc = "done"
    /\ Cardinality(querySequences) = 2
    /\ rowCount = 2

\* C11: at the end of a map-only text pass with deduplication on and
\* multi-target off, the number of distinct Query values among the data
\* rows equals the unique-query count summarizeUC computes over the same
\* lines with the same splitSeqID setting, and the number of distinct
\* Target values equals its unique-target count.
C11_MapAgreesWithSummary ==
    (TextDedupDirect /\ opts.mapOnly /\ pc = "done") =>
        /\ Cardinality({RowPair(out[i])[1] : i \in DataRows}) =
              Cardinality(SummaryQueries(scanned, opts.splitSeqID))
        /\ Cardinality({RowPair(out[i])[2] : i \in DataRows}) =
              Cardinality(SummaryTargets(scanned, opts.splitSeqID))

\* the number of rows with the pair p that processAndWriteText emits for
\* the scanned lines under the options of the run: the rows of its loop
\* and, with multiMapped, the rows of its final loop
TextPairCount(p) ==
    LET st == TextRun(TextStart(opts), scanned, opts)
    IN Cardinality({i \in 2..Len(st.out) : RowPair(st.out[i]) = p})
       + (IF opts.multiMapped /\ p \in MultiPairs(st.queryToTargets)
          THEN 1 ELSE 0)

\* the number of rows with the pair p in the Parquet file
ParquetPairCount(p) ==
    Cardinality({i \in 1..Len(pq) : <<pq[i].Query, pq[i].Target>> = p})

\* C12: at the end of processAndWriteParquet the file holds the same
\* multiset of (query, target) rows as processAndWriteText emits for the
\* same lines and the same splitSeqID, removeDups and multiMapped settings;
\* with multiMapped on it holds no row of a query with one distinct target.
C12_ParquetMatchesText ==
    (IsParquet /\ pc = "done") =>
        /\ \A p \in DecodedPairs : ParquetPairCount(p) = TextPairCount(p)
        /\ \A i \in 1..Len(pq) : <<pq[i].Query, pq[i].Target>> \in DecodedPairs
        /\ opts.multiMapped =>
              \A i \in 1..Len(pq) :
                 Cardinality(TargetsOf(pq[i].Query)) > 1

(***************************************************************************)
(* Claims about fields 1 to 4 of a single call of parseUCRecord            *)
(***************************************************************************)
\* C13: for every line of at least 10 fields parseUCRecord returns and does
\* not panic, whatever fields 1 to 4 hold; in the record it returns an
\* unparsable cluster number or size is 0, an unparsable or * identity is
\* absent, and an empty or * strand is absent.
C13_DecoderNeverAborts ==
    Len(LineFields) >= 10 =>
        /\ pc # "panic"
        /\ (pc = "parsed" /\ ret.ok) =>
              /\ ParseUint(F(LineFields, 1)).err =>
                    ret.rec.ClusterNumber = <<"0">>
              /\ ParseUint(F(LineFields, 2)).err => ret.rec.Size = <<"0">>
              /\ (F(LineFields, 3) = Star \/ ParseFloat(F(LineFields, 3)).err)
                    => ret.rec.Identity = <<>>
              /\ F(LineFields, 4) \in {Star, <<>>} => ret.rec.Strand = <<>>

\* the identity column of the full-table row of a record
IdentityColumn(record) ==
    LET row == writeUCRecord(record, [opts EXCEPT !.mapOnly = FALSE])
    IN Split(SubSeq(row, 1, Len(row) - 1), TAB)[4]

\* C14: a decoded record of type H, S or N has the cluster number and size
\* of fields 1 and 2 when they parse as uint32, the identity of field 3
\* when it parses as a number, and the strand of field 4 when that is + or
\* -; the full-table row of an H record with a numeric field 3 shows the
\* identity with two decimals and not *.
C14_OptionalFieldsPopulated ==
    (pc = "parsed" /\ ret.ok
       /\ ret.rec.RecordType \in {<<"H">>, <<"S">>, <<"N">>}) =>
        /\ ~ParseUint(F(LineFields, 1)).err =>
              ret.rec.ClusterNumber = ParseUint(F(LineFields, 1)).num
        /\ ~ParseUint(F(LineFields, 2)).err =>
              ret.rec.Size = ParseUint(F(LineFields, 2)).num
        /\ (F(LineFields, 3) # Star /\ ~ParseFloat(F(LineFields, 3)).err) =>
              /\ ret.rec.Identity = <<ParseFloat(F(LineFields, 3)).val>>
              /\ IdentityColumn(ret.rec) =
                    FormatFloat2(ParseFloat(F(LineFields, 3)).val)
        /\ F(LineFields, 4) \in {<<"+">>, <<"-">>} =>
              ret.rec.Strand = F(LineFields, 4)

(***************************************************************************)
(* Claims about the exit of main                                           *)
(***************************************************************************)
\* C15: when a write to the output has failed, in text, Parquet or summary
\* mode, and the run was not ended by a panic, main has called fatalError:
\* a message is on the error stream and the exit status is 1.
C15_WriteErrorIsFatal ==
    (pc = "exited" /\ exitStatus # 2 /\ writerErr # Nil) =>
        /\ exitStatus = 1
        /\ Len(fatal) = 1

\* C16: whenever main has exited, by returning or through fatalError, both
\* handles are closed and the buffered writer has been flushed.
C16_ReleasedOnEveryExit ==
    pc = "exited" =>
        /\ closed = Handles
        /\ flushed

(***************************************************************************)
(* Claims about the report of the duplicates                               *)
(***************************************************************************)
\* the number of decoded records that repeat the pair of an earlier one
SuppressedCount == Cardinality(DecodedIdx) - Cardinality(DecodedPairs)

\* C17: when an emission run, on the text path or on the Parquet path, has
\* reached the end of the input, the error stream holds the number of
\* suppressed duplicates if deduplication is on and that number is
\* positive, and nothing otherwise; the run then exits with status 0.
C17_DuplicateReport ==
    (~opts.summary /\ (pc = "done" \/ (pc = "exited" /\ exitStatus # 2))) =>
        /\ (opts.removeDups /\ SuppressedCount > 0) =>
              stderr = <<SuppressedCount>>
        /\ (~opts.removeDups \/ SuppressedCount = 0) => stderr = <<>>
        /\ pc = "exited" => exitStatus = 0

(***************************************************************************)
(* Claims about splitSeqID                                                 *)
(***************************************************************************)
\* C18: splitSeqID(splitSeqID(x, true), true) = splitSeqID(x, true) for
\* every identifier x.
C18_SplitIdempotent ==
    (opts.splitSeqID /\ Len(norm) = 2) => norm[2] = norm[1]

C18_Witness ==
    /\ opts.splitSeqID
    /\ Len(norm) = 2
    /\ Cardinality({i \in 1..Len(seqID) : seqID[i] = ";"}) >= 2
    /\ Len(norm[1]) >= 1

\* C19: splitSeqID(id, false) is id; splitSeqID(id, true) is id when id has
\* no ";" and otherwise the prefix of id that ends right before its first
\* ";", so it never contains ";".
C19_SplitAtFirstSemicolon ==
    Len(norm) >= 1 =>
        IF ~opts.splitSeqID THEN norm[1] = seqID
        ELSE /\ \A i \in 1..Len(norm[1]) : norm[1][i] # ";"
             /\ \/ norm[1] = seqID
                \/ /\ Len(norm[1]) < Len(seqID)
                   /\ SubSeq(seqID, 1, Len(norm[1]) + 1) = norm[1] \o <<";">>

C19_Witness ==
    /\ Len(norm) = 1
    /\ seqID = <<"a", ";", "b", ";">>
    /\ norm[1] = <<"a">>

(***************************************************************************)
(* Claims about the map-only text table                                    *)
(***************************************************************************)
\* the columns of a written line
Columns(row) == Split(SubSeq(row, 1, Len(row) - 1), TAB)

\* the pairs a text pass over the scanned lines lets through
SurvivingCount ==
    IF opts.multiMapped
    THEN Cardinality({p \in DecodedPairs : Cardinality(TargetsOf(p[1])) > 1})
    ELSE IF opts.removeDups THEN Cardinality(DecodedPairs)
    ELSE Cardinality(DecodedIdx)

\* C20: in map-only text emission the first line written is the header
\* Query<TAB>Target, no later line is a header, every later line ends with
\* a newline and has exactly two tab-separated columns holding the pair of
\* a decoded record, and at the end of the pass there is one data row per
\* surviving pair, hence the header alone when no line was decodable.
C20_MapTableShape ==
    (IsText /\ opts.mapOnly /\ pc \in {"text_scan", "done", "panic"}) =>
        /\ Len(out) >= 1
        /\ out[1] = MapHeader
        /\ \A i \in DataRows :
              /\ out[i] # MapHeader
              /\ out[i][Len(out[i])] = "\n"
              /\ Len(Columns(out[i])) = 2
              /\ <<Columns(out[i])[1], Columns(out[i])[2]>> \in DecodedPairs
        /\ pc = "done" => Len(out) = 1 + SurvivingCount

C20_Witness ==
    /\ IsText /\ opts.mapOnly /\ pc = "done"
    /\ Len(out) = 3
    /\ Len(scanned) = 3
    /\ Cardinality(DecodedIdx) = 2

(***************************************************************************)
(* Claims about the rows of the full table                                 *)
(***************************************************************************)
\* the ten columns the full table shows for a decoded record
FullColumns(record) ==
    <<record.RecordType, record.ClusterNumber, record.Size,
      IF record.Identity = <<>> THEN Star
      ELSE FormatFloat2(record.Identity[1]),
      IF record.Strand = <<>> THEN Star ELSE record.Strand,
      record.Unused1, record.Unused2, record.CIGAR,
      record.Query, record.Target>>

\* C21: in full-table text mode, with multiMapped on as well as off, every
\* data row shows the record type, cluster number, size, identity, strand,
\* unused fields and CIGAR of a record decoded from a scanned line, together
\* with the resolved query and target of that record.
C21_FullRowCarriesRecord ==
    (IsText /\ ~opts.mapOnly /\ pc \in {"text_scan", "done", "panic"}) =>
        \A i \in DataRows :
           \E j \in DecodedIdx : Columns(out[i]) = FullColumns(RecordAt(j))

(***************************************************************************)
(* Claims about the multi-target mode of the text pass                     *)
(***************************************************************************)
TextMulti == IsText /\ opts.multiMapped

\* the pairs held by a query-to-targets map
MapPairs(m) == { p \in (DOMAIN m) \X UNION {m[x] : x \in DOMAIN m} :
                   p[2] \in m[p[1]] }

\* C22: with multiMapped on, while lines are being read the output holds
\* the header and no data row, and queryToTargets holds the pairs of the
\* records decoded so far; the data rows appear only in the step that
\* follows the last line.
C22_RowsOnlyAfterInput ==
    TextMulti =>
        /\ pc \in {"text_scan", "panic"} =>
              /\ Len(out) = 1
              /\ MapPairs(queryToTargets) = DecodedPairs
        /\ pc = "done" =>
              Len(out) = 1 + Cardinality(MultiPairs(queryToTargets))

C22_Witness ==
    /\ TextMulti
    /\ pc = "text_scan"
    /\ Len(scanned) = 2
    /\ Cardinality(MultiPairs(queryToTargets)) = 2
    /\ Len(out) = 1

\* C23: with multiMapped on, the rows a run has written at the end of the
\* pass are the rows every run over the same lines with the same options
\* writes: whatever order the two range loops visit the map in, the
\* sequence of rows is the one this run has written.
C23_MultiOrderDeterministic ==
    (TextMulti /\ pc = "done") =>
        \A f \in RangeOrders(queryToTargets) :
           out = <<out[1]>> \o MultiRows(f, opts)

(***************************************************************************)
(* Claims about the tag and the strand of a decoded record                 *)
(***************************************************************************)
\* C24: a record that parseUCRecord returns as decoded has the tag S, H or
\* N; a line of at least 10 fields with any other tag is not decoded.
C24_DecodedTagDocumented ==
    (pc = "parsed" /\ ret.ok) =>
        ret.rec.RecordType \in {<<"S">>, <<"H">>, <<"N">>}

\* C25: the strand of a decoded record is absent, + or -, and it is absent
\* whenever field 4 is neither + nor -.
C25_StrandEnum ==
    (pc = "parsed" /\ ret.ok) =>
        /\ ret.rec.Strand \in {<<>>, <<"+">>, <<"-">>}
        /\ F(LineFields, 4) \notin {<<"+">>, <<"-">>} => ret.rec.Strand = <<>>

(***************************************************************************)
(* Claims about the direct emission of the text pass                       *)
(***************************************************************************)
TextDirect == IsText /\ ~opts.multiMapped

PairAt(i) == <<RecordAt(i).Query, RecordAt(i).Target>>

\* the decoded lines whose record is let through: all of them without
\* deduplication, and with it the first line of every pair
KeptIdx ==
    IF opts.removeDups
    THEN {i \in DecodedIdx : \A j \in DecodedIdx : j < i => PairAt(j) # PairAt(i)}
    ELSE DecodedIdx

\* the line a row shows for a record
RowOf(record) ==
    IF opts.mapOnly THEN <<record.Query, record.Target>>
    ELSE FullColumns(record)

\* C26: with multiMapped off the data rows are, in the order of the input,
\* the rows of the kept lines (the row of a kept line comes after the
\* header and the rows of the kept lines before it): with deduplication every pair is shown by
\* the record of the first line that carries it and the later lines of the
\* pair write nothing, whatever their other fields; without deduplication
\* every decoded record is written and duplicateCount stays 0.
C26_DirectOrder ==
    (TextDirect /\ pc \in {"text_scan", "done", "panic"}) =>
        LET kept == KeptIdx
        IN /\ Len(out) = 1 + Cardinality(kept)
           /\ \A i \in kept :
                 Columns(out[2 + Cardinality({j \in kept : j < i})]) =
                    RowOf(RecordAt(i))
           /\ ~opts.removeDups => duplicateCount = 0

C26_Witness ==
    /\ TextDirect /\ opts.removeDups /\ ~opts.mapOnly
    /\ pc = "done"
    /\ Len(scanned) = 3
    /\ KeptIdx = {1, 2}
    /\ DecodedIdx = {1, 2, 3}
    /\ PairAt(3) = PairAt(1)
    /\ FullColumns(RecordAt(3)) # FullColumns(RecordAt(1))

(***************************************************************************)
(* Claims about deduplication in the multi-target mode                     *)
(***************************************************************************)
\* the options of the run with the removeDups toggle flipped
OtherDedup == [opts EXCEPT !.removeDups = ~opts.removeDups]

\* the (query, target) pairs the text pass writes for the scanned lines
\* when it runs with the removeDups toggle flipped
OtherDedupPairs ==
    MultiPairs(TextRun(TextStart(OtherDedup), scanned, OtherDedup).queryToTargets)

\* C27: at the end of a text pass with multiMapped on, the set of (query,
\* target) pairs of the data rows is the set the pass writes for the same
\* lines with removeDups flipped, and it is the set of decoded pairs whose
\* query has more than one target; the lines a run with removeDups on
\* suppresses are exactly the repeated pairs.
C27_MultiIgnoresDedup ==
    (TextMulti /\ pc = "done") =>
        /\ {RowPair(out[i]) : i \in DataRows} = OtherDedupPairs
        /\ OtherDedupPairs =
              {p \in DecodedPairs : Cardinality(TargetsOf(p[1])) > 1}
        /\ opts.removeDups =>
              duplicateCount = Cardinality(DecodedIdx) - Cardinality(DecodedPairs)
        /\ ~opts.removeDups => duplicateCount = 0

C27_Witness ==
    /\ TextMulti /\ opts.removeDups
    /\ pc = "done"
    /\ duplicateCount = 1
    /\ Len(out) = 3

====
